---- MODULE Spec2Model ----
(***************************************************************************)
(* A model of src/keybindings.js: the Multimap class and the KeyBindings    *)
(* registry that dispatches Mousetrap key sequences to the handlers         *)
(* registered for a named action.                                           *)
(*                                                                          *)
(* JavaScript values are modelled by what the code does with them:          *)
(*   - a handler is a function value, compared by identity (its name);      *)
(*   - Multimap.map is a plain object created as {}: a property read finds  *)
(*     the own property when there is one and otherwise walks to            *)
(*     Object.prototype, so the read of "toString" or "constructor" on an   *)
(*     empty map is a function, not undefined;                              *)
(*   - Array.prototype.forEach reads the length once, then visits the       *)
(*     indices 0..len-1 of the live array, skipping an index that is no     *)
(*     longer present.                                                      *)
(* A handler is code of the application: while it runs it may call          *)
(* addEventHandler / removeShortcutHandler on the registry, return, or      *)
(* throw.                                                                   *)
(***************************************************************************)
EXTENDS Integers, Sequences, FiniteSets, TLC

\* ------------------------------------------------------------------ bounds
\* Registrations held by all multimaps together.
MaxRegs == 3
\* Registry calls made by the handlers of one dispatch.
MaxCalls == 1

\* ------------------------------------------------------------------ values
Registries == {"R1", "R2"}
\* Names every JavaScript object inherits from Object.prototype.
ObjectPrototypeKeys == {"toString"}
Actions == {"zoom-in", "quit"} \cup ObjectPrototypeKeys
KeySeqs == {"ctrl+=", "mod+q", "alt+q"}
\* Function values the application owns.
Handlers == {"h1", "h2", "h3"}
\* Values that are not functions (the number 42).
NonInvocable == {"42"}
Values == Handlers \cup NonInvocable

TypeOf(v) == IF v \in Handlers THEN "function" ELSE "number"

\* A JavaScript value read from the map: undefined, an array, or a function
\* inherited from Object.prototype.
JsUndefined == [kind |-> "undefined", arr |-> <<>>]
JsArray(a) == [kind |-> "array", arr |-> a]
JsInherited == [kind |-> "function", arr |-> <<>>]
\* undefined is falsy; arrays (the empty one too) and functions are truthy.
Truthy(v) == v.kind # "undefined"

\* An own property slot of Multimap.map.
NoSlot == [has |-> FALSE, arr |-> <<>>]
EmptyMap == [a \in Actions |-> NoSlot]

\* this.map[key]
PropGet(m, key) ==
    IF m[key].has THEN JsArray(m[key].arr)
    ELSE IF key \in ObjectPrototypeKeys THEN JsInherited
    ELSE JsUndefined

\* Mutant of indexOf: the last index holding value (lastIndexOf).
IndexOf_Last(a, value) ==
    IF \E i \in 1..Len(a) : a[i] = value
    THEN (CHOOSE i \in 1..Len(a) : a[i] = value /\ \A j \in (i+1)..Len(a) : a[j] # value) - 1
    ELSE -1

\* array.indexOf(value): the first index (from 0) holding value, or -1.
IndexOf(a, value) ==
    IF \E i \in 1..Len(a) : a[i] = value
    THEN (CHOOSE i \in 1..Len(a) : a[i] = value /\ \A j \in 1..(i-1) : a[j] # value) - 1
    ELSE -1

\* array.splice(index, 1)
Splice1(a, index) ==
    [i \in 1..(Len(a) - 1) |-> IF i <= index THEN a[i] ELSE a[i + 1]]

\* The outcome of a method: the map it leaves and the error it throws.
Ok(m) == [map |-> m, err |-> "none"]
Throws(m, e) == [map |-> m, err |-> e]

\* ---------------------------------------------------------------- Multimap
\* Mutant of put: the value goes to the front (unshift for push).
MultimapPut_Unshift(m, key, value) ==
    LET m1 == IF ~Truthy(PropGet(m, key))
              THEN [m EXCEPT ![key] = [has |-> TRUE, arr |-> <<>>]]
              ELSE m
        cur == PropGet(m1, key)
    IN  IF cur.kind = "array"
        THEN Ok([m1 EXCEPT ![key].arr = <<value>> \o @])
        ELSE Throws(m1, "TypeError")

\* Mutant of put: one array is shared by every key, so the value shows up
\* under every key that has an array.
MultimapPut_SharedArray(m, key, value) ==
    LET m1 == IF ~Truthy(PropGet(m, key))
              THEN [m EXCEPT ![key] = [has |-> TRUE, arr |-> <<>>]]
              ELSE m
        cur == PropGet(m1, key)
    IN  IF cur.kind = "array"
        THEN Ok([a \in Actions |->
                    IF m1[a].has THEN [m1[a] EXCEPT !.arr = Append(@, value)] ELSE m1[a]])
        ELSE Throws(m1, "TypeError")

\* put(key, value)
MultimapPut(m, key, value) ==
    LET m1 == IF ~Truthy(PropGet(m, key))
              THEN [m EXCEPT ![key] = [has |-> TRUE, arr |-> <<>>]]
              ELSE m
        cur == PropGet(m1, key)
    IN  IF cur.kind = "array"
        THEN Ok([m1 EXCEPT ![key].arr = Append(@, value)])
        ELSE Throws(m1, "TypeError")    \* this.map[key].push is not a function

\* get(key)
MultimapGet(m, key) == PropGet(m, key)

\* Mutant of remove: every occurrence of value goes (filter for splice).
MultimapRemove_All(m, key, value) ==
    LET array == PropGet(m, key)
    IN  IF Truthy(array)
        THEN IF array.kind # "array"
             THEN Throws(m, "TypeError")
             ELSE Ok([m EXCEPT ![key].arr = SelectSeq(array.arr, LAMBDA x : x # value)])
        ELSE Ok(m)

\* Mutant of remove: a key whose array becomes empty is deleted.
MultimapRemove_DropEmpty(m, key, value) ==
    LET array == PropGet(m, key)
    IN  IF Truthy(array)
        THEN IF array.kind # "array"
             THEN Throws(m, "TypeError")
             ELSE LET index == IndexOf(array.arr, value)
                  IN  IF index >= 0
                      THEN IF Len(array.arr) = 1
                           THEN Ok([m EXCEPT ![key] = NoSlot])
                           ELSE Ok([m EXCEPT ![key].arr = Splice1(array.arr, index)])
                      ELSE Ok(m)
        ELSE Ok(m)

\* remove(key, value)
MultimapRemove(m, key, value) ==
    LET array == PropGet(m, key)
    IN  IF Truthy(array)
        THEN IF array.kind # "array"
             THEN Throws(m, "TypeError")    \* array.indexOf is not a function
             ELSE LET index == IndexOf(array.arr, value)
                  IN  IF index >= 0
                      THEN Ok([m EXCEPT ![key].arr = Splice1(array.arr, index)])
                      ELSE Ok(m)
        ELSE Ok(m)

\* ------------------------------------------------------- detection engine
\* The callback Mousetrap holds for a key sequence: the closure of line 112
\* over e.action and this.eventHandlers.
NoCallback == [reg |-> "none", action |-> "none"]
\* Mutant of the closure: it reads the handlers of the first registry.
Trampoline_FirstRegistry(r, action) == [reg |-> "R1", action |-> action]
Trampoline(r, action) == [reg |-> r, action |-> action]

\* keys of a binding: a single string or an array of strings.
KeyString(s) == [array |-> FALSE, seqs |-> <<s>>]
KeyArray(ss) == [array |-> TRUE, seqs |-> ss]
Binding(action, keys) == [action |-> action, keys |-> keys]

\* Mousetrap.bind(keys, callback): each key sequence of keys now fires
\* callback; a later bind of the same sequence replaces the earlier one.
MousetrapBind(eng, keys, callback) ==
    [s \in KeySeqs |->
        IF \E i \in 1..Len(keys.seqs) : keys.seqs[i] = s THEN callback ELSE eng[s]]

\* Mutant of the constructor's loop: the bindings are bound from the last
\* to the first.
RECURSIVE BindAll_Reversed(_, _, _, _)
BindAll_Reversed(eng, r, bs, i) ==
    IF i > Len(bs) THEN eng
    ELSE MousetrapBind(BindAll_Reversed(eng, r, bs, i + 1), bs[i].keys,
                       Trampoline(r, bs[i].action))

\* Mutant of the constructor's loop: every callback closes over the action
\* of the last binding (a loop variable captured by reference).
RECURSIVE BindAll_LastAction(_, _, _, _)
BindAll_LastAction(eng, r, bs, i) ==
    IF i > Len(bs) THEN eng
    ELSE BindAll_LastAction(
            MousetrapBind(eng, bs[i].keys, Trampoline(r, bs[Len(bs)].action)), r, bs, i + 1)

\* bindings.forEach(e => Mousetrap.bind(e.keys, () => handle(e.action, ...)))
RECURSIVE BindAll(_, _, _, _)
BindAll(eng, r, bs, i) ==
    IF i > Len(bs) THEN eng
    ELSE BindAll(MousetrapBind(eng, bs[i].keys, Trampoline(r, bs[i].action)), r, bs, i + 1)

\* The binding arrays an application constructs a registry with.
BindingConfigs ==
    { << Binding("zoom-in", KeyString("ctrl+=")),
         Binding("quit", KeyArray(<<"mod+q", "alt+q">>)) >>,
      << Binding("zoom-in", KeyString("ctrl+=")),
         Binding("toString", KeyString("mod+q")),
         Binding("quit", KeyArray(<<"ctrl+=", "alt+q">>)) >> }

\* ------------------------------------------------------------------- state
VARIABLES
    constructed,    \* the registries that exist
    eventHandlers,  \* registry -> its Multimap's map
    bindings,       \* registry -> this.bindings
    engine,         \* Mousetrap: key sequence -> callback
    pc,             \* "idle", or where handle() is: "forEach", "handler", "done"
    cur,            \* the trampoline that is running
    k,              \* forEach: the index
    len,            \* forEach: the length read when it started
    invoked,        \* history: the calls handler(action) of this dispatch
    calls,          \* history: the registry calls made by its handlers
    raised,         \* history: a handler of this dispatch has thrown
    last,           \* history: the latest operation and its outcome
    before,         \* history: eventHandlers when the latest operation started
    everAdded,      \* history: <<registry, action>> with a successful add
    fifo,           \* history: per registry and action, the handlers added in
                    \* order since the array was last empty, while none of
                    \* them has been removed (clean)
    prev            \* history: the operation before the latest one, kept when
                    \* it was the add that the latest remove undoes, or the
                    \* dispatch that the latest dispatch repeats

vars == << constructed, eventHandlers, bindings, engine, pc, cur, k, len,
           invoked, calls, raised, last, before, everAdded, fifo, prev >>

dispatchVars == << pc, cur, k, len, invoked, calls, raised >>

NoOp == [op |-> "new", reg |-> "none", action |-> "none", value |-> "none",
         key |-> "none", err |-> "none", result |-> JsUndefined]

NoPrev == [kind |-> "none", reg |-> "none", action |-> "none", value |-> "none",
           map |-> [r \in Registries |-> EmptyMap], invoked |-> <<>>, added |-> <<>>]

Arr(r, a) == eventHandlers[r][a].arr

\* The array of the dispatched action when the dispatch started.
Start == before[cur.reg][cur.action].arr

RECURSIVE SumLen(_, _)
SumLen(m, as) ==
    IF as = {} THEN 0
    ELSE LET a == CHOOSE x \in as : TRUE
         IN  Len(m[a].arr) + SumLen(m, as \ {a})

RECURSIVE SumRegs(_, _)
SumRegs(eh, rs) ==
    IF rs = {} THEN 0
    ELSE LET r == CHOOSE x \in rs : TRUE
         IN  SumLen(eh[r], Actions) + SumRegs(eh, rs \ {r})

TotalRegs(eh) == SumRegs(eh, Registries)

CleanFifo == [clean |-> TRUE, seq |-> <<>>]

\* fifo after addEventHandler(a, h) on registry r left map m1 with outcome err.
FifoAdd(r, a, h, err) ==
    IF err = "none" /\ fifo[r][a].clean
    THEN [fifo EXCEPT ![r][a].seq = Append(@, h)]
    ELSE fifo

\* fifo after removeShortcutHandler(a, h) on registry r turned map m0 into m1.
FifoRemove(r, a, m0, m1) ==
    IF m1 = m0 THEN fifo
    ELSE IF m1[a].arr = <<>> THEN [fifo EXCEPT ![r][a] = CleanFifo]
    ELSE [fifo EXCEPT ![r][a] = [clean |-> FALSE, seq |-> <<>>]]

\* ------------------------------------------------------------ construction
\* Mutant of the constructor: this.bindings is never assigned.
Constructor_NoBindings(eng, r, bs) ==
    [eventHandlers |-> EmptyMap, bindings |-> <<>>, engine |-> BindAll(eng, r, bs, 1)]

\* new KeyBindings(bs) for registry r, as the fields it sets.
Constructor(eng, r, bs) ==
    [eventHandlers |-> EmptyMap, bindings |-> bs, engine |-> BindAll(eng, r, bs, 1)]

\* The state after new KeyBindings(bs) for registry R1, bs one of configs.
InitWith(configs) ==
    \E bs \in configs :
        LET c == Constructor([s \in KeySeqs |-> NoCallback], "R1", bs)
        IN  /\ constructed = {"R1"}
            /\ eventHandlers = [r \in Registries |-> c.eventHandlers]
            /\ bindings = [r \in Registries |-> IF r = "R1" THEN c.bindings ELSE <<>>]
            /\ engine = c.engine
            /\ pc = "idle"
            /\ cur = NoCallback
            /\ k = 0
            /\ len = 0
            /\ invoked = <<>>
            /\ calls = <<>>
            /\ raised = FALSE
            /\ last = NoOp
            /\ before = eventHandlers
            /\ everAdded = {}
            /\ fifo = [r \in Registries |-> [a \in Actions |-> CleanFifo]]
            /\ prev = NoPrev

Init == InitWith(BindingConfigs)

\* -------------------------------------------------------------- KeyBindings
\* Mutant of addEventHandler: the type check comes after the put.
AddEventHandlerOn_CheckAfterPut(m, action, eventHandler) ==
    IF TypeOf(eventHandler) # "function"
    THEN Throws(MultimapPut(m, action, eventHandler).map, "NotAFunction")
    ELSE MultimapPut(m, action, eventHandler)

\* addEventHandler(action, eventHandler) on a map m
AddEventHandlerOn(m, action, eventHandler) ==
    IF TypeOf(eventHandler) # "function"
    THEN Throws(m, "NotAFunction")      \* throw eventHandler + ' is not a function'
    ELSE MultimapPut(m, action, eventHandler)

\* removeShortcutHandler(action, eventHandler) on a map m
RemoveShortcutHandlerOn(m, action, eventHandler) ==
    MultimapRemove(m, action, eventHandler)

\* shortcutHandlers(action) on a map m
ShortcutHandlersOn(m, action) == MultimapGet(m, action)

AddEventHandler(r, action, v) ==
    /\ pc = "idle"
    /\ r \in constructed
    /\ LET res == AddEventHandlerOn(eventHandlers[r], action, v)
       IN  /\ TotalRegs([eventHandlers EXCEPT ![r] = res.map]) <= MaxRegs
           /\ eventHandlers' = [eventHandlers EXCEPT ![r] = res.map]
           /\ last' = [NoOp EXCEPT !.op = "add", !.reg = r, !.action = action,
                                   !.value = v, !.err = res.err]
           /\ everAdded' = IF res.err = "none"
                           THEN everAdded \cup {<<r, action>>} ELSE everAdded
           /\ fifo' = FifoAdd(r, action, v, res.err)
    /\ before' = eventHandlers
    /\ prev' = NoPrev
    /\ UNCHANGED << constructed, bindings, engine, dispatchVars >>

RemoveShortcutHandler(r, action, h) ==
    /\ pc = "idle"
    /\ r \in constructed
    /\ LET res == RemoveShortcutHandlerOn(eventHandlers[r], action, h)
       IN  /\ eventHandlers' = [eventHandlers EXCEPT ![r] = res.map]
           /\ last' = [NoOp EXCEPT !.op = "remove", !.reg = r, !.action = action,
                                   !.value = h, !.err = res.err]
           /\ fifo' = FifoRemove(r, action, eventHandlers[r], res.map)
    /\ before' = eventHandlers
    /\ prev' = IF last.op = "add" /\ last.reg = r /\ last.action = action /\ last.value = h
               THEN [NoPrev EXCEPT !.kind = "add", !.reg = r, !.action = action,
                                   !.value = h, !.map = before]
               ELSE NoPrev
    /\ UNCHANGED << constructed, bindings, engine, everAdded, dispatchVars >>

ShortcutHandlers(r, action) ==
    /\ pc = "idle"
    /\ r \in constructed
    /\ last' = [NoOp EXCEPT !.op = "get", !.reg = r, !.action = action,
                            !.result = ShortcutHandlersOn(eventHandlers[r], action)]
    /\ before' = eventHandlers
    /\ prev' = NoPrev
    /\ UNCHANGED << constructed, eventHandlers, bindings, engine, everAdded,
                    fifo, dispatchVars >>

\* ------------------------------------------------------------------ dispatch
\* handle(action, handlers) up to the start of the forEach: handlers.get(action)
\* must be an array for .forEach to be callable.
HandleStart(m, action) ==
    LET got == MultimapGet(m, action)
    IN  IF got.kind = "array"
        THEN [pc |-> "forEach", len |-> Len(got.arr), err |-> "none"]
        ELSE [pc |-> "done", len |-> 0, err |-> "TypeError"]

\* The detection engine detects key sequence s and calls its callback.
Fire(s) ==
    /\ pc = "idle"
    /\ engine[s] # NoCallback
    /\ LET cb == engine[s]
           h == HandleStart(eventHandlers[cb.reg], cb.action)
       IN  /\ cur' = cb
           /\ pc' = h.pc
           /\ len' = h.len
           /\ k' = 0
           /\ last' = [NoOp EXCEPT !.op = "fire", !.reg = cb.reg, !.action = cb.action,
                                   !.key = s, !.err = h.err]
    /\ before' = eventHandlers
    /\ invoked' = <<>>
    /\ calls' = <<>>
    /\ raised' = FALSE
    /\ prev' = IF prev.kind = "dispatch" /\ prev.reg = engine[s].reg
                  /\ prev.action = engine[s].action
               THEN prev ELSE NoPrev
    /\ UNCHANGED << constructed, eventHandlers, bindings, engine, everAdded, fifo >>

\* forEach: is index i (from 0) of the live array present?
HasIndex(a, i) == i < Len(a)

\* The call the forEach callback makes for the element at index i.
HandlerCall(a, i, action) == [fn |-> a[i + 1], arg |-> action]

\* Mutant of forEach: the length is read again at every step (a for loop
\* over array.length).
ForEachBound_Live(a, n) == Len(a)

\* forEach: the bound of the index, given the live array a and the length n
\* read when the forEach started.
ForEachBound(a, n) == n

\* forEach visits index k: calls the handler there, or skips a missing index.
ForEachVisit ==
    /\ pc = "forEach"
    /\ k < ForEachBound(Arr(cur.reg, cur.action), len)
    /\ IF HasIndex(Arr(cur.reg, cur.action), k)
       THEN /\ invoked' = Append(invoked, HandlerCall(Arr(cur.reg, cur.action), k, cur.action))
            /\ pc' = "handler"
            /\ k' = k
       ELSE /\ invoked' = invoked
            /\ pc' = "forEach"
            /\ k' = k + 1
    /\ UNCHANGED << constructed, eventHandlers, bindings, engine, cur, len,
                    calls, raised, last, before, everAdded, fifo, prev >>

\* forEach has visited every index below len: handle() returns.
ForEachDone ==
    /\ pc = "forEach"
    /\ k >= ForEachBound(Arr(cur.reg, cur.action), len)
    /\ pc' = "done"
    /\ UNCHANGED << constructed, eventHandlers, bindings, engine, cur, k, len,
                    invoked, calls, raised, last, before, everAdded, fifo, prev >>

\* The running handler returns; its return value is dropped.
HandlerReturn ==
    /\ pc = "handler"
    /\ pc' = "forEach"
    /\ k' = k + 1
    /\ UNCHANGED << constructed, eventHandlers, bindings, engine, cur, len,
                    invoked, calls, raised, last, before, everAdded, fifo, prev >>

\* Mutant of handle(): each handler call is wrapped in try/catch, so the
\* forEach goes on to the next index.
HandleOnThrow_Isolated(i) == [pc |-> "forEach", k |-> i + 1, err |-> "none"]

\* What handle() does when the handler at index i throws: nothing catches
\* it, so the forEach is abandoned and the error leaves handle().
HandleOnThrow(i) == [pc |-> "done", k |-> i, err |-> "HandlerError"]

\* The running handler throws.
HandlerThrow ==
    /\ pc = "handler"
    /\ raised' = TRUE
    /\ LET t == HandleOnThrow(k)
       IN  /\ pc' = t.pc
           /\ k' = t.k
           /\ last' = [last EXCEPT !.err = t.err]
    /\ UNCHANGED << constructed, eventHandlers, bindings, engine, cur, len,
                    invoked, calls, before, everAdded, fifo, prev >>

\* handle() has returned or thrown into Mousetrap's event callback, which
\* ends: the page is back in its event loop. p is what is kept of the
\* dispatch as history.
CallbackExitKeeping(p) ==
    /\ pc = "done"
    /\ pc' = "idle"
    /\ cur' = NoCallback
    /\ k' = 0
    /\ len' = 0
    /\ invoked' = <<>>
    /\ calls' = <<>>
    /\ raised' = FALSE
    /\ last' = [NoOp EXCEPT !.op = "exit"]
    /\ before' = eventHandlers
    /\ prev' = p
    /\ UNCHANGED << constructed, eventHandlers, bindings, engine, everAdded, fifo >>

CallbackExit == CallbackExitKeeping(NoPrev)

\* The dispatch that ends, when it ended without error and its handlers
\* called nothing of the registry but addEventHandler.
DispatchAsPrev ==
    IF last.err = "none" /\ \A i \in 1..Len(calls) : calls[i].op = "add"
    THEN [NoPrev EXCEPT !.kind = "dispatch", !.reg = cur.reg, !.action = cur.action,
                        !.invoked = invoked,
                        !.added = [i \in 1..Len(calls) |-> calls[i].h]]
    ELSE NoPrev

\* The same step, with the dispatch kept as history for the next one.
CallbackExitRemembered == CallbackExitKeeping(DispatchAsPrev)

\* The running handler calls addEventHandler(action, h) for its own action.
HandlerAdds(h) ==
    /\ pc = "handler"
    /\ Len(calls) < MaxCalls
    /\ LET res == AddEventHandlerOn(eventHandlers[cur.reg], cur.action, h)
       IN  /\ TotalRegs([eventHandlers EXCEPT ![cur.reg] = res.map]) <= MaxRegs
           /\ eventHandlers' = [eventHandlers EXCEPT ![cur.reg] = res.map]
           /\ everAdded' = IF res.err = "none"
                           THEN everAdded \cup {<<cur.reg, cur.action>>} ELSE everAdded
           /\ fifo' = FifoAdd(cur.reg, cur.action, h, res.err)
    /\ calls' = Append(calls, [op |-> "add", pos |-> k, by |-> invoked[Len(invoked)].fn, h |-> h])
    /\ UNCHANGED << constructed, bindings, engine, pc, cur, k, len, invoked,
                    raised, last, before, prev >>

\* The running handler calls removeShortcutHandler(action, h) for its own action.
HandlerRemoves(h) ==
    /\ pc = "handler"
    /\ Len(calls) < MaxCalls
    /\ LET res == RemoveShortcutHandlerOn(eventHandlers[cur.reg], cur.action, h)
       IN  /\ eventHandlers' = [eventHandlers EXCEPT ![cur.reg] = res.map]
           /\ fifo' = FifoRemove(cur.reg, cur.action, eventHandlers[cur.reg], res.map)
    /\ calls' = Append(calls, [op |-> "remove", pos |-> k, by |-> invoked[Len(invoked)].fn, h |-> h])
    /\ UNCHANGED << constructed, bindings, engine, pc, cur, k, len, invoked,
                    raised, last, before, everAdded, prev >>

\* ------------------------------------------------------------ specification
Next ==
    \/ \E r \in Registries, a \in Actions, v \in Values : AddEventHandler(r, a, v)
    \/ \E r \in Registries, a \in Actions, h \in Handlers : RemoveShortcutHandler(r, a, h)
    \/ \E r \in Registries, a \in Actions : ShortcutHandlers(r, a)
    \/ \E s \in KeySeqs : Fire(s)
    \/ ForEachVisit
    \/ ForEachDone
    \/ HandlerReturn
    \/ HandlerThrow
    \/ CallbackExit
    \/ \E h \in Handlers : HandlerAdds(h)
    \/ \E h \in Handlers : HandlerRemoves(h)

Spec == Init /\ [][Next]_vars

\* Two dispatches in a row: as Spec, with each dispatch kept as history for
\* the next one, and handlers that call addEventHandler, return or throw.
NextTwice ==
    \/ \E r \in Registries, a \in Actions, v \in Values : AddEventHandler(r, a, v)
    \/ \E r \in Registries, a \in Actions, h \in Handlers : RemoveShortcutHandler(r, a, h)
    \/ \E r \in Registries, a \in Actions : ShortcutHandlers(r, a)
    \/ \E s \in KeySeqs : Fire(s)
    \/ ForEachVisit
    \/ ForEachDone
    \/ HandlerReturn
    \/ HandlerThrow
    \/ CallbackExitRemembered
    \/ \E h \in Handlers : HandlerAdds(h)

SpecTwice == Init /\ [][NextTwice]_vars

\* new KeyBindings(bs) for a second registry, on the same Mousetrap.
NewKeyBindings(r, bs) ==
    /\ pc = "idle"
    /\ r \notin constructed
    /\ LET c == Constructor(engine, r, bs)
       IN  /\ constructed' = constructed \cup {r}
           /\ eventHandlers' = [eventHandlers EXCEPT ![r] = c.eventHandlers]
           /\ bindings' = [bindings EXCEPT ![r] = c.bindings]
           /\ engine' = c.engine
    /\ last' = [NoOp EXCEPT !.op = "new", !.reg = r]
    /\ before' = eventHandlers
    /\ prev' = NoPrev
    /\ UNCHANGED << everAdded, fifo, dispatchVars >>

\* The binding arrays a second registry is constructed with.
SecondConfigs ==
    { << Binding("zoom-in", KeyString("ctrl+=")),
         Binding("quit", KeyArray(<<"mod+q", "alt+q">>)) >>,
      << Binding("quit", KeyString("ctrl+=")) >> }

\* Two registries on the one Mousetrap, with handlers that return or throw;
\* the application uses two actions and two handlers.
NextTwo ==
    \/ \E r \in Registries, bs \in SecondConfigs : NewKeyBindings(r, bs)
    \/ \E r \in Registries, a \in {"zoom-in", "quit"}, v \in {"h1", "h2"} :
            AddEventHandler(r, a, v)
    \/ \E r \in Registries, a \in {"zoom-in", "quit"}, h \in {"h1", "h2"} :
            RemoveShortcutHandler(r, a, h)
    \/ \E s \in KeySeqs : Fire(s)
    \/ ForEachVisit
    \/ ForEachDone
    \/ HandlerReturn
    \/ HandlerThrow
    \/ CallbackExit

\* The first registry has the bindings of the class comment's example.
InitTwo == InitWith({ << Binding("zoom-in", KeyString("ctrl+=")),
                         Binding("quit", KeyArray(<<"mod+q", "alt+q">>)) >> })

SpecTwo == InitTwo /\ [][NextTwo]_vars

\* ------------------------------------------------------------------ claims
Count(a, h) == Cardinality({i \in 1..Len(a) : a[i] = h})
Fns(inv) == [i \in 1..Len(inv) |-> inv[i].fn]
\* a without its i-th element (from 1)
WithoutIndex(a, i) == SubSeq(a, 1, i - 1) \o SubSeq(a, i + 1, Len(a))
\* The calls a dispatch of action over the array a makes when it visits all of a.
CallsOf(a, action) == [i \in 1..Len(a) |-> [fn |-> a[i], arg |-> action]]
\* handle() has ended, in the engine's callback: how the dispatch went is known.
DispatchEnded == pc = "done" /\ last.op = "fire"
\* No handler of the dispatch called the registry.
NoReentrantCall == calls = <<>>

\* C1: a dispatch of an action that has no registered handler (none was ever
\* added, or all were removed) invokes no handler, raises no error and
\* leaves the handler multimap unchanged.
C1_DispatchWithoutHandlers ==
    (DispatchEnded /\ Start = <<>>) =>
        /\ invoked = <<>>
        /\ last.err = "none"
        /\ eventHandlers = before

\* The part of C1 the code satisfies: the action had handlers, all removed.
C1_AfterAllRemoved ==
    (DispatchEnded /\ Start = <<>> /\ before[cur.reg][cur.action].has) =>
        /\ invoked = <<>>
        /\ last.err = "none"
        /\ eventHandlers = before

\* C2: for every action A and function h, addEventHandler(A, h) returns with
\* handlersFor(A) being the earlier collection with h appended, and a
\* dispatch of A whose handlers leave the registry alone invokes each
\* registration once, with A as the sole argument.
C2_AddAppendsAndDispatchInvokes ==
    /\ (last.op = "add" /\ TypeOf(last.value) = "function") =>
            /\ last.err = "none"
            /\ ShortcutHandlersOn(eventHandlers[last.reg], last.action)
                 = JsArray(Append(before[last.reg][last.action].arr, last.value))
    /\ (DispatchEnded /\ last.err = "none" /\ NoReentrantCall) =>
            invoked = CallsOf(Start, cur.action)

\* C2 for the action names Object.prototype does not define.
C2_ForOwnNames ==
    /\ (/\ last.op = "add"
        /\ TypeOf(last.value) = "function"
        /\ last.action \notin ObjectPrototypeKeys) =>
            /\ last.err = "none"
            /\ ShortcutHandlersOn(eventHandlers[last.reg], last.action)
                 = JsArray(Append(before[last.reg][last.action].arr, last.value))
    /\ (DispatchEnded /\ last.err = "none" /\ NoReentrantCall) =>
            invoked = CallsOf(Start, cur.action)

\* C3: the handlers added to an action in some order, none removed since and
\* none calling the registry during the dispatch, are invoked by a dispatch
\* of that action in exactly that order, and nothing else is invoked.
C3_FifoDispatchOrder ==
    (/\ DispatchEnded
     /\ last.err = "none"
     /\ NoReentrantCall
     /\ fifo[cur.reg][cur.action].clean) =>
        invoked = CallsOf(fifo[cur.reg][cur.action].seq, cur.action)

C3_Witness ==
    /\ DispatchEnded
    /\ last.err = "none"
    /\ NoReentrantCall
    /\ fifo[cur.reg][cur.action] = [clean |-> TRUE, seq |-> <<"h1", "h2", "h3">>]
    /\ Fns(invoked) = <<"h1", "h2", "h3">>

\* C4: no deduplication: an add of h raises its number of registrations by
\* one even when h is registered already, a dispatch invokes h as many times
\* as it is registered, and a removeShortcutHandler(A, h) of a registered h
\* takes away exactly one registration of h and leaves the others in order.
C4_NoDeduplication ==
    /\ (last.op = "add" /\ last.err = "none") =>
            Count(Arr(last.reg, last.action), last.value)
                = Count(before[last.reg][last.action].arr, last.value) + 1
    /\ (DispatchEnded /\ last.err = "none" /\ NoReentrantCall) =>
            \A h \in Handlers : Count(Fns(invoked), h) = Count(Start, h)
    /\ (last.op = "remove" /\ Count(before[last.reg][last.action].arr, last.value) >= 1) =>
            LET b == before[last.reg][last.action].arr
                a == Arr(last.reg, last.action)
            IN  /\ Count(a, last.value) = Count(b, last.value) - 1
                /\ \E i \in 1..Len(b) : b[i] = last.value /\ a = WithoutIndex(b, i)

C4_Witness ==
    /\ last.op = "remove"
    /\ last.err = "none"
    /\ Count(before[last.reg][last.action].arr, last.value) = 2
    /\ Count(Arr(last.reg, last.action), last.value) = 1
    /\ Len(Arr(last.reg, last.action)) = 2

\* C5: removeShortcutHandler(A, h) with h not registered for A raises no
\* error and leaves the whole handler multimap as it was.
C5_RemoveUnregisteredIsNoOp ==
    (last.op = "remove" /\ Count(before[last.reg][last.action].arr, last.value) = 0) =>
        /\ last.err = "none"
        /\ eventHandlers = before

\* C5 for the action names Object.prototype does not define.
C5_ForOwnNames ==
    (/\ last.op = "remove"
     /\ Count(before[last.reg][last.action].arr, last.value) = 0
     /\ last.action \notin ObjectPrototypeKeys) =>
        /\ last.err = "none"
        /\ eventHandlers = before

\* C6: addEventHandler(A, v) with v not a function throws to its caller and
\* leaves the handler multimap as it was: handlersFor gives, for every
\* action, what it gave before.
C6_NonInvocableRejected ==
    (last.op = "add" /\ TypeOf(last.value) # "function") =>
        /\ last.err = "NotAFunction"
        /\ eventHandlers = before
        /\ \A a \in Actions :
              ShortcutHandlersOn(eventHandlers[last.reg], a)
                = ShortcutHandlersOn(before[last.reg], a)

C6_Witness ==
    /\ last.op = "add"
    /\ last.value = "42"
    /\ last.err = "NotAFunction"
    /\ Len(Arr(last.reg, last.action)) = 2

\* Binding i of registry r is the only binding that names key sequence s.
OnlyTarget(r, i, s) ==
    \A r2 \in constructed : \A i2 \in 1..Len(bindings[r2]) :
        (<<r2, i2>> # <<r, i>>) =>
            \A j \in 1..Len(bindings[r2][i2].keys.seqs) : bindings[r2][i2].keys.seqs[j] # s

\* C7: every key sequence of every binding, when no other binding names it,
\* is held by the engine with the callback of that binding's action: when
\* the engine fires it, the one dispatch that runs is of that action, and
\* it invokes the action's handlers with the action as argument.
C7_KeySequenceDispatchesItsAction ==
    \A r \in constructed : \A i \in 1..Len(bindings[r]) :
        \A j \in 1..Len(bindings[r][i].keys.seqs) :
            LET b == bindings[r][i]
                s == b.keys.seqs[j]
            IN  OnlyTarget(r, i, s) =>
                  /\ engine[s] = Trampoline(r, b.action)
                  /\ (last.op = "fire" /\ last.key = s) =>
                        /\ cur = Trampoline(r, b.action)
                        /\ last.action = b.action
                        /\ (pc = "done" /\ last.err = "none" /\ NoReentrantCall) =>
                              invoked = CallsOf(Start, b.action)

C7_Witness ==
    /\ DispatchEnded
    /\ last.key = "ctrl+="
    /\ bindings["R1"] = << Binding("zoom-in", KeyString("ctrl+=")),
                           Binding("quit", KeyArray(<<"mod+q", "alt+q">>)) >>
    /\ invoked = << [fn |-> "h1", arg |-> "zoom-in"] >>

\* C8: handlersFor(A) is absent exactly when no add for A has succeeded;
\* otherwise it is a collection (empty when all were removed) holding the
\* registrations added and not removed, in insertion order; and it changes
\* nothing.
C8_AbsentIffNeverAdded ==
    (last.op = "get") =>
        /\ (last.result.kind = "undefined") <=> (<<last.reg, last.action>> \notin everAdded)
        /\ (<<last.reg, last.action>> \in everAdded) =>
              /\ last.result = JsArray(Arr(last.reg, last.action))
              /\ fifo[last.reg][last.action].clean =>
                    last.result.arr = fifo[last.reg][last.action].seq
        /\ eventHandlers = before

\* C8 for the action names Object.prototype does not define.
C8_ForOwnNames ==
    (last.op = "get" /\ last.action \notin ObjectPrototypeKeys) =>
        /\ (last.result.kind = "undefined") <=> (<<last.reg, last.action>> \notin everAdded)
        /\ (<<last.reg, last.action>> \in everAdded) =>
              /\ last.result = JsArray(Arr(last.reg, last.action))
              /\ fifo[last.reg][last.action].clean =>
                    last.result.arr = fifo[last.reg][last.action].seq
        /\ eventHandlers = before

\* Every registry call of the dispatch was a handler removing itself.
OnlySelfRemovals ==
    /\ calls # <<>>
    /\ \A i \in 1..Len(calls) : calls[i].op = "remove" /\ calls[i].h = calls[i].by

\* C9: in a dispatch whose handlers, when they call the registry, only
\* remove themselves, every handler registered when the dispatch started is
\* invoked exactly once.
C9_SelfRemovalKeepsOthers ==
    (DispatchEnded /\ last.err = "none" /\ OnlySelfRemovals) =>
        invoked = CallsOf(Start, cur.action)

\* C10: when a handler throws, the dispatch ends there with that error: the
\* handlers before it, and it, have been invoked once each in order, the
\* later ones are not invoked, the handler multimap is as the dispatch found
\* it, and every dispatch starts with the first handler of the array.
C10_ThrowAbortsDispatch ==
    /\ raised => (pc = "done" /\ last.err = "HandlerError")
    /\ (DispatchEnded /\ raised /\ NoReentrantCall) =>
            LET n == Len(invoked)
            IN  /\ n >= 1
                /\ n <= Len(Start)
                /\ invoked = CallsOf(SubSeq(Start, 1, n), cur.action)
                /\ k = n - 1
                /\ eventHandlers = before
    /\ (pc \in {"forEach", "handler", "done"} /\ NoReentrantCall /\ invoked # <<>>) =>
            invoked[1].fn = Start[1]

C10_Witness ==
    /\ DispatchEnded
    /\ raised
    /\ NoReentrantCall
    /\ Len(Start) = 3
    /\ Len(invoked) = 2

\* Binding b names key sequence s.
Names(b, s) == \E j \in 1..Len(b.keys.seqs) : b.keys.seqs[j] = s
\* The indices of the bindings of registry r that name s.
Naming(r, s) == {i \in 1..Len(bindings[r]) : Names(bindings[r][i], s)}
Max(S) == CHOOSE x \in S : \A y \in S : y <= x

\* C11: with one registry on an engine where the last bind of a key sequence
\* wins, a key sequence named by several bindings is held with the callback
\* of the binding latest in the input: firing it dispatches that binding's
\* action, and only it.
C11_LastBindingWins ==
    \A s \in KeySeqs :
        (constructed = {"R1"} /\ Naming("R1", s) # {}) =>
            LET b == bindings["R1"][Max(Naming("R1", s))]
            IN  /\ engine[s] = Trampoline("R1", b.action)
                /\ (last.op = "fire" /\ last.key = s) =>
                      /\ cur = Trampoline("R1", b.action)
                      /\ \A i \in 1..Len(invoked) : invoked[i].arg = b.action
                      /\ (pc = "done" /\ last.err = "none" /\ NoReentrantCall) =>
                            invoked = CallsOf(Arr("R1", b.action), b.action)

C11_Witness ==
    /\ DispatchEnded
    /\ last.key = "ctrl+="
    /\ Cardinality(Naming("R1", "ctrl+=")) = 2
    /\ bindings["R1"][1].action = "zoom-in"
    /\ Arr("R1", "zoom-in") = <<"h1">>
    /\ invoked = << [fn |-> "h2", arg |-> "quit"] >>

\* C12: put(key, value) succeeds for every key, creating the collection on
\* first use and appending value, and get(key) is absent for every key never
\* put, the names every object inherits included.
C12_PutAlwaysSucceeds ==
    /\ (last.op = "add" /\ TypeOf(last.value) = "function") =>
            /\ last.err = "none"
            /\ eventHandlers[last.reg][last.action]
                 = [has |-> TRUE, arr |-> Append(before[last.reg][last.action].arr, last.value)]
    /\ (last.op = "get" /\ ~before[last.reg][last.action].has) =>
            last.result = JsUndefined

\* C12 for the keys Object.prototype does not define.
C12_ForOwnNames ==
    /\ (/\ last.op = "add"
        /\ TypeOf(last.value) = "function"
        /\ last.action \notin ObjectPrototypeKeys) =>
            /\ last.err = "none"
            /\ eventHandlers[last.reg][last.action]
                 = [has |-> TRUE, arr |-> Append(before[last.reg][last.action].arr, last.value)]
    /\ (/\ last.op = "get"
        /\ ~before[last.reg][last.action].has
        /\ last.action \notin ObjectPrototypeKeys) =>
            last.result = JsUndefined

\* The first index (from 1) of a that holds h.
FirstAt(a, h) == CHOOSE i \in 1..Len(a) : a[i] = h /\ \A j \in 1..(i - 1) : a[j] # h

\* C13: remove(key, value) with value in key's collection deletes the
\* earliest occurrence and nothing else: the collection is one shorter, the
\* other entries keep their order, the other keys keep their collections.
C13_RemoveEarliestOccurrence ==
    (last.op = "remove" /\ Count(before[last.reg][last.action].arr, last.value) >= 1) =>
        LET b == before[last.reg][last.action].arr
            a == Arr(last.reg, last.action)
        IN  /\ last.err = "none"
            /\ Len(a) = Len(b) - 1
            /\ a = WithoutIndex(b, FirstAt(b, last.value))
            /\ eventHandlers = [before EXCEPT ![last.reg][last.action].arr = a]

C13_Witness ==
    /\ last.op = "remove"
    /\ last.value = "h1"
    /\ before[last.reg][last.action].arr = <<"h1", "h2", "h1">>
    /\ Arr(last.reg, last.action) = <<"h2", "h1">>

\* handle() is running or has just ended.
InDispatch == pc \in {"forEach", "handler", "done"} /\ last.op = "fire"

\* C14: whatever operations have run, the registry holds the bindings it
\* was constructed with and the engine holds, for every key sequence they
\* name, the callback of its action; a dispatch whose handlers do not call
\* the registry leaves the handler multimap as it found it, and the
\* dispatch that follows it at once invokes the same handlers in the same
\* order.
C14_BindingsPermanentDispatchReadOnly ==
    /\ bindings["R1"] \in BindingConfigs
    /\ \A s \in KeySeqs :
          Naming("R1", s) # {} =>
              engine[s] = Trampoline("R1", bindings["R1"][Max(Naming("R1", s))].action)
    /\ (InDispatch /\ NoReentrantCall) => eventHandlers = before
    /\ (/\ DispatchEnded
        /\ last.err = "none"
        /\ NoReentrantCall
        /\ prev.kind = "dispatch"
        /\ prev.added = <<>>) =>
            invoked = prev.invoked

C14_Witness ==
    /\ DispatchEnded
    /\ last.err = "none"
    /\ NoReentrantCall
    /\ prev.kind = "dispatch"
    /\ prev.added = <<>>
    /\ Fns(prev.invoked) = <<"h2", "h1">>
    /\ Fns(invoked) = <<"h2", "h1">>

\* Every registry call of the dispatch was an addEventHandler.
OnlyAdds == \A i \in 1..Len(calls) : calls[i].op = "add"

\* C15: a dispatch visits only the registrations present when it started:
\* it never makes more calls than there were registrations, a handler added
\* by a handler during the dispatch is left at the end of the array and not
\* invoked for that registration, and the dispatch that follows at once
\* invokes the earlier registrations and then the added ones.
C15_AddDuringDispatch ==
    /\ InDispatch =>
            /\ Len(invoked) <= Len(Start)
            /\ k <= len
            /\ len = Len(Start)
    /\ (DispatchEnded /\ last.err = "none" /\ OnlyAdds) =>
            /\ invoked = CallsOf(Start, cur.action)
            /\ Arr(cur.reg, cur.action) = Start \o [i \in 1..Len(calls) |-> calls[i].h]
    /\ (DispatchEnded /\ last.err = "none" /\ OnlyAdds /\ prev.kind = "dispatch") =>
            invoked = prev.invoked \o CallsOf(prev.added, cur.action)

C15_Witness ==
    /\ DispatchEnded
    /\ last.err = "none"
    /\ prev.kind = "dispatch"
    /\ Fns(prev.invoked) = <<"h1">>
    /\ prev.added = <<"h2">>
    /\ Fns(invoked) = <<"h1", "h2">>
    /\ calls # <<>>

\* The functions in array a.
Members(a) == {a[i] : i \in 1..Len(a)}

\* The functions the handlers of this dispatch registered.
AddedByCalls == {calls[i].h : i \in {j \in 1..Len(calls) : calls[j].op = "add"}}

\* C16: addEventHandler(A, h) and removeShortcutHandler(A, h), called by
\* the application or by a running handler, leave shortcutHandlers(B)
\* as it was for every other action B, and a dispatch of A invokes only
\* functions registered for A, never one registered only for another action.
C16_OtherActionsUntouched ==
    /\ last.op \in {"add", "remove"} =>
            \A b \in Actions \ {last.action} :
                /\ ShortcutHandlersOn(eventHandlers[last.reg], b)
                        = ShortcutHandlersOn(before[last.reg], b)
                /\ eventHandlers[last.reg][b] = before[last.reg][b]
    /\ InDispatch =>
            /\ \A b \in Actions \ {cur.action} :
                    eventHandlers[cur.reg][b] = before[cur.reg][b]
            /\ \A i \in 1..Len(invoked) :
                    /\ invoked[i].fn \in Members(Start) \cup AddedByCalls
                    /\ invoked[i].arg = cur.action

C16_Witness ==
    /\ last.op = "remove"
    /\ last.action = "zoom-in"
    /\ last.value = "h1"
    /\ before["R1"]["zoom-in"].arr = <<"h1">>
    /\ Arr("R1", "zoom-in") = <<>>
    /\ Arr("R1", "quit") = <<"h1", "h2">>

\* C17: addEventHandler(A, h) directly followed by
\* removeShortcutHandler(A, h) leaves, for every action and handler, as many
\* registrations as before the pair and every other action's entry as it
\* was; A's array is the one before the pair when h was not in it, and
\* otherwise the one before the pair without its first h and with h at the
\* end; an A for which shortcutHandlers gave undefined now gives an empty
\* array.
C17_AddThenRemove ==
    (last.op = "remove" /\ prev.kind = "add") =>
        LET m0 == prev.map[prev.reg]
            m1 == eventHandlers[prev.reg]
            a0 == m0[prev.action].arr
        IN  /\ \A r \in Registries, b \in Actions, g \in Handlers :
                    Count(eventHandlers[r][b].arr, g) = Count(prev.map[r][b].arr, g)
            /\ \A b \in Actions \ {prev.action} : m1[b] = m0[b]
            /\ Count(a0, prev.value) = 0 => m1[prev.action].arr = a0
            /\ Count(a0, prev.value) > 0 =>
                    m1[prev.action].arr
                        = WithoutIndex(a0, FirstAt(a0, prev.value)) \o <<prev.value>>
            /\ ShortcutHandlersOn(m0, prev.action) = JsUndefined =>
                    ShortcutHandlersOn(m1, prev.action) = JsArray(<<>>)

C17_Witness ==
    /\ last.op = "remove"
    /\ prev.kind = "add"
    /\ prev.action = "zoom-in"
    /\ prev.value = "h1"
    /\ prev.map["R1"]["zoom-in"].arr = <<"h1", "h2">>
    /\ Arr("R1", "zoom-in") = <<"h2", "h1">>

\* C18: addEventHandler and removeShortcutHandler on one registry leave the
\* handlers of the other registry as they were; a key sequence that fires
\* runs the callback Mousetrap holds for it and invokes, in order, only
\* registrations of that callback's registry and action; when the second
\* registry names the sequence, that registry is the second one.
C18_RegistriesIndependentEngineShared ==
    /\ last.op \in {"add", "remove"} =>
            \A r \in Registries \ {last.reg} :
                /\ eventHandlers[r] = before[r]
                /\ \A b \in Actions :
                        ShortcutHandlersOn(eventHandlers[r], b) = ShortcutHandlersOn(before[r], b)
    /\ InDispatch =>
            /\ cur = engine[last.key]
            /\ invoked = SubSeq(CallsOf(before[cur.reg][cur.action].arr, cur.action),
                                1, Len(invoked))
            /\ ("R2" \in constructed /\ Naming("R2", last.key) # {}) =>
                    /\ cur.reg = "R2"
                    /\ cur.action = bindings["R2"][Max(Naming("R2", last.key))].action
                    /\ Len(invoked) <= Len(before["R2"][cur.action].arr)

C18_Witness ==
    /\ DispatchEnded
    /\ last.key = "ctrl+="
    /\ cur = [reg |-> "R2", action |-> "quit"]
    /\ Arr("R1", "zoom-in") = <<"h1">>
    /\ Arr("R1", "quit") = <<"h1">>
    /\ Arr("R2", "quit") = <<"h2">>
    /\ Fns(invoked) = <<"h2">>

====
